---- MODULE Spec2Model ----
(***************************************************************************)
(* Model of cloudinit/config/cc_growpart.py: the resize orchestrator       *)
(* (resize_devices), the device resolver (devent2dev, device_part_info)    *)
(* and the two resize backends (ResizeGrowPart, ResizeGpart).              *)
(*                                                                         *)
(* Everything the code reads from the operating system (mount table,       *)
(* kernel command line, stat, sysfs, partition sizes, exit codes of the    *)
(* external tools) is an input chosen with \E at the step that reads it.   *)
(***************************************************************************)
EXTENDS Integers, Sequences, FiniteSets, TLC

\* ------------------------------------------------------------------ bounds
\* longest device list given to resize_devices
MaxDevices == 2
\* partition sizes read by get_size range over 0..MaxSize
MaxSize == 1
\* exit codes of the external tools range over -1..MaxExitCode
\* (-1: the tool was killed by a signal)
MaxExitCode == 2
\* how many resolutions are made against one operating system state
MaxResolves == 3
\* the largest retries query_data_api is called with
MaxRetries == 5

\* ------------------------------------------------------------------ values
\* Python's None; distinct from every path of the model
None == <<"None">>

\* paths are sequences of components: "/" is <<>>, "/dev/vdb1" is <<"dev","vdb1">>
Slash == <<>>
DevRoot == <<"dev", "root">>
DevVda1 == <<"dev", "vda1">>
DevVdb1 == <<"dev", "vdb1">>
DevVda == <<"dev", "vda">>
DevVdb == <<"dev", "vdb">>

\* the entries a device list is made of
DevEnts == {Slash, DevVdb1}
DeviceLists == UNION {[1..n -> DevEnts] : n \in 0..MaxDevices}

\* what util.get_mount_info(devent) gives: None, or the device of the mount
MountDevs == {None, DevRoot, DevVda1}
\* what util.rootdev_from_cmdline(util.get_cmdline()) gives
CmdlineDevs == {None, DevVda1}
\* what os.stat(blockdev) gives: OSError, or the file type in st_mode
StatResults == {"OSError", "S_IFBLK", "S_IFCHR", "S_IFREG"}
Platforms == {"linux", "freebsd", "dragonflybsd"}
\* the name util.find_freebsd_part / find_dragonflybsd_part gives, as
\* (disk, separator, partition number)
BsdParts == [disk : {DevVda}, sep : {"p", "s"}, num : {1, 10}]
\* /sys/class/block/<bname>: missing, without a partition attribute, or a
\* partition with its number and its parent disk
SysEntries == {[kind |-> "nosyspath"], [kind |-> "nopartition"]}
                \cup [kind : {"partition"}, ptnum : {"1", "2"}, disk : {DevVda, DevVdb}]

Sizes == 0..MaxSize
ExitCodes == -1..MaxExitCode

\* class RESIZE
SKIPPED == "SKIPPED"
CHANGED == "CHANGED"
NOCHANGE == "NOCHANGE"
FAILED == "FAILED"

\* RESIZERS, by name
ResizerNames == {"growpart", "gpart"}

VARIABLES
    devices,   \* resize_devices' argument: the device entries
    resizer,   \* resize_devices' argument: the backend, by name
    pc,        \* position in resize_devices / resizer.resize
    idx,       \* index of the entry the for loop is at
    info,      \* the report being built
    blockdev,  \* locals of the loop body
    disk,
    ptnum,
    before,    \* local of resize
    tmpd,      \* TRUE while ResizeGrowPart.resize's temporary directory exists
    ret,       \* how the last resize call ended: its value or its exception
    raised,    \* the exception that escaped resize_devices, or "none"
    cmds,      \* what the current resize call did so far: commands and size reads
    invoked,   \* indexes of the entries resizer.resize was called for
    cfg,       \* handle: the "growpart" entry of the configuration
    sentinel,  \* whether the file /etc/growroot-disabled exists
    gate,      \* handle: the early return that ended the run, or "none"
    probes,    \* resizer_factory: the available() calls of the current call
    cur,       \* resizer_factory: index in RESIZERS of the variant being probed
    nselect,   \* how many times resizer_factory was called
    selerr,    \* the exception resizer_factory raised, or "none"
    env,       \* the operating system state the resolver reads
    results,   \* the resolutions made so far against env
    retries,   \* query_data_api's argument
    port,      \* query_data_api: the loop variable, 0 before the loop
    attempts,  \* query_data_api: the calls of query_data_api_once so far
    last_exc,  \* query_data_api: its local last_exc, "unbound" until assigned
    slept,     \* how many times query_data_api called time.sleep(5)
    qret       \* how query_data_api ended: its value or its exception

\* the variables of handle and resizer_factory
hvars == <<cfg, sentinel, gate, probes, cur, nselect, selerr>>

\* the variables of the resolver on its own
rvars == <<env, results>>

\* the variables of query_data_api
qvars == <<retries, port, attempts, last_exc, slept, qret>>

vars == <<devices, resizer, pc, idx, info, blockdev, disk, ptnum, before,
          tmpd, ret, raised, cmds, invoked, hvars, rvars, qvars>>

\* ---------------------------------------------------------------- resolver

\* devent.startswith("/dev/")
startswith_dev(p) == Len(p) >= 2 /\ p[1] = "dev"

\* os.path.exists(path): a TypeError for a path that is None, else whether
\* the file is there
os_path_exists(path, there) ==
    IF path = None THEN [exc |-> "TypeError", val |-> FALSE]
    ELSE [exc |-> "none", val |-> there]

\* devent2dev(devent), reading the mount table (minfo), util.is_container()
\* (container), the kernel command line (cmdroot) and the file system
\* (there: whether the path os.path.exists is asked about exists)
devent2dev(devent, minfo, container, cmdroot, there) ==
    IF startswith_dev(devent) THEN [exc |-> "none", dev |-> devent]
    ELSE IF minfo = None THEN [exc |-> "ValueError", dev |-> None]
    ELSE IF minfo = DevRoot /\ ~container
         THEN LET dev == cmdroot IN
              IF dev = None
              THEN LET ex == os_path_exists(dev, there) IN
                   IF ex.exc # "none" THEN [exc |-> ex.exc, dev |-> None]
                   ELSE IF ex.val THEN [exc |-> "none", dev |-> dev]
                   ELSE [exc |-> "ValueError", dev |-> None]
              ELSE [exc |-> "none", dev |-> dev]
         ELSE [exc |-> "none", dev |-> minfo]

\* re.search("^(/dev/.+)p([0-9])$", "/dev/" + part): the separator must be the
\* platform's and the partition number one digit
bsd_search(part, sepchar) == part.sep = sepchar /\ part.num \in 0..9

\* device_part_info(devpath), reading the platform, the BSD partition name
\* and the sysfs entry
device_part_info(devpath, platform, part, sys) ==
    IF platform = "freebsd"
    THEN IF bsd_search(part, "p")
         THEN [exc |-> "none", disk |-> part.disk, ptnum |-> ToString(part.num)]
         ELSE [exc |-> "AttributeError", disk |-> None, ptnum |-> "0"]
    ELSE IF platform = "dragonflybsd"
    THEN IF bsd_search(part, "s")
         THEN [exc |-> "none", disk |-> part.disk, ptnum |-> ToString(part.num)]
         ELSE [exc |-> "AttributeError", disk |-> None, ptnum |-> "0"]
    ELSE IF sys.kind = "nosyspath"
    THEN [exc |-> "ValueError", disk |-> None, ptnum |-> "0"]
    ELSE IF sys.kind = "nopartition"
    THEN [exc |-> "TypeError", disk |-> None, ptnum |-> "0"]
    ELSE [exc |-> "none", disk |-> sys.disk, ptnum |-> sys.ptnum]

\* resize_devices, lines 312-334: os.stat(blockdev) and the file type test
stat_check(st) ==
    IF st = "OSError" THEN "stat failed"
    ELSE IF st # "S_IFBLK" /\ st # "S_IFCHR" THEN "not a block device"
    ELSE "ok"

\* the devices devent2dev can give for the entries of the model
ResolvedDevs == {DevRoot, DevVda1, DevVdb1}

\* the operating system state devent2dev and device_part_info read: the
\* device "/" is mounted from, util.is_container(), the root device of the
\* kernel command line, whether the path os.path.exists is asked about is
\* there, the platform, the BSD partition name and the sysfs entry of each
\* device
Envs == [minfo : MountDevs, container : BOOLEAN, cmdroot : CmdlineDevs,
         there : BOOLEAN, platform : Platforms, part : BsdParts,
         sys : [ResolvedDevs -> SysEntries]]

\* a resolution that remounts "/" from the device it found
os_state_after_remount(e, d) ==
    IF d.exc = "none" THEN [e EXCEPT !.minfo = d.dev] ELSE e

\* the operating system state after devent2dev and device_part_info ran:
\* both only read (get_mount_info, is_container, get_cmdline,
\* os.path.exists, sysfs files, find_freebsd_part), neither writes
os_state_after(e, d) == e

\* devent2dev(devent) against the state e
resolve_dev(devent, e) ==
    devent2dev(devent, e.minfo, e.container, e.cmdroot, e.there)

\* device_part_info(dev) against the state e, for a device devent2dev gave
resolve_part(d, e) ==
    IF d.exc # "none" THEN [exc |-> "unresolved", disk |-> None, ptnum |-> "0"]
    ELSE device_part_info(d.dev, e.platform, e.part, e.sys[d.dev])

\* ----------------------------------------------------------------- backends

\* get_size(filename): os.open may fail with OSError, else the size is the
\* offset of the end of the device
SizeReads == [exc : {"none"}, size : Sizes] \cup {[exc |-> "OSError", size |-> 0]}

Returned(old, new) == [exc |-> "none", old |-> old, new |-> new]
Raised(exc) == [exc |-> exc, old |-> 0, new |-> 0]

Cmd(op, args, res) == [op |-> op, args |-> args, res |-> res]

\* what a size read leaves in cmds: the size, or -1 for an OSError
ReadRes(r) == IF r.exc = "none" THEN r.size ELSE -1

\* growpart_dry_run without the special case of exit code 1
growpart_dry_run_exit1_fatal(rc) == IF rc = 0 THEN "apply" ELSE "ResizeFailedException"

\* growpart_dry_run that goes on whatever the dry run said
growpart_dry_run_ignored(rc) == "apply"

\* ResizeGrowPart.resize, lines 159-172: subp.subp raises ProcessExecutionError
\* for every exit code but 0; exit code 1 returns (before, before), any other
\* raises ResizeFailedException
growpart_dry_run(rc) ==
    IF rc = 0 THEN "apply"
    ELSE IF rc # 1 THEN "ResizeFailedException"
    ELSE "return"

\* ResizeGrowPart.resize, lines 174-178
growpart_apply(rc) == IF rc = 0 THEN "ok" ELSE "ResizeFailedException"

\* temp_utils.tempdir as a context manager: the directory exists inside the
\* with block and has been removed once the block is left, whether by
\* falling off its end, by return or by an exception
tempdir(inside) == inside

\* a with block that ends right after the dry-run try statement
in_with_block_dry_run_only(p) == p = "growpart_dry_run"

\* ResizeGrowPart.resize, lines 154-178: the steps of the call that are
\* inside the with block (the dry run and the apply); the return at line
\* 172, the raises at lines 171 and 178 and line 180 are outside
in_with_block(p) == p \in {"growpart_dry_run", "growpart_apply"}

\* gpart_recover that goes on whatever gpart recover said
gpart_recover_ignored(rc) == "ok"

\* ResizeGpart.resize, lines 205-210: the handler runs for every exit code
\* but 0 and raises when e.exit_code != 0
gpart_recover(rc) ==
    IF rc # 0 THEN (IF rc # 0 THEN "ResizeFailedException" ELSE "ok")
    ELSE "ok"

\* ResizeGpart.resize, lines 213-217
gpart_resize(rc) == IF rc = 0 THEN "ok" ELSE "ResizeFailedException"

\* resize_entry that always calls ResizeGrowPart.resize
resize_entry_growpart_only(name) == "growpart_before"

\* the entry point of resizer.resize, by backend
resize_entry(name) == IF name = "growpart" THEN "growpart_before" ELSE "gpart_recover"

\* ----------------------------------------------------------- query_data_api

\* the retries query_data_api is called with
Retries == -1..MaxRetries

\* exc.code of a UrlError: an HTTP status, or None when the request got no
\* response (a ConnectionError such as EADDRINUSE)
UrlCodes == {"404", "429", "None"}

\* resp.contents
Contents == {<<"bytes", "">>, <<"bytes", "#cloud-config">>}

\* what url_helper.readurl(..., retries=0, ...) gives: a response, or a
\* UrlError
ReadUrlResults ==
    [kind : {"ok"}, contents : Contents, code : {"200"}]
        \cup [kind : {"UrlError"}, contents : {<<>>}, code : UrlCodes]

\* util.decode_binary(blob): bytes are decoded to text
decode_binary(blob) == IF blob[1] = "bytes" THEN <<"str", blob[2]>> ELSE blob

\* a UrlError, by its code and the source port of the attempt that raised it
UrlError(code, p) == [code |-> code, port |-> p]
NoExc == [code |-> "none", port |-> 0]
\* the local last_exc before its first assignment
Unbound == [code |-> "unbound", port |-> 0]

QReturn(val) == [kind |-> "returned", val |-> val, exc |-> NoExc]
QRaise(exc) == [kind |-> "raised", val |-> None, exc |-> exc]
QRunning == [kind |-> "running", val |-> None, exc |-> NoExc]

\* query_data_api_once that re-raises every UrlError
query_data_api_once_reraise(res, p) ==
    IF res.kind = "ok" THEN QReturn(decode_binary(res.contents))
    ELSE QRaise(UrlError(res.code, p))

\* query_data_api_once, lines 95-134, with a session bound to source port p
query_data_api_once(res, p) ==
    IF res.kind = "ok" THEN QReturn(decode_binary(res.contents))
    ELSE IF res.code = "404" THEN QReturn(None)
    ELSE QRaise(UrlError(res.code, p))

\* range_stop that lets the loop go one port further
range_stop_retries_plus_one(r) == IF r > 2 THEN r + 1 ELSE 3

\* max(retries, 2), the stop of range(1, max(retries, 2))
range_stop(r) == IF r > 2 THEN r ELSE 2

\* raise last_exc
raise_last(e) ==
    IF e = Unbound THEN QRaise([code |-> "UnboundLocalError", port |-> 0])
    ELSE QRaise(e)

\* ------------------------------------------------------------- orchestrator

\* resize_outcome that takes a smaller size for no change
resize_outcome_grown_only(old, new) == IF old >= new THEN NOCHANGE ELSE CHANGED

\* resize_outcome with its two branches swapped
resize_outcome_swapped(old, new) == IF old = new THEN CHANGED ELSE NOCHANGE

\* resize_devices, lines 350-366
resize_outcome(old, new) == IF old = new THEN NOCHANGE ELSE CHANGED

\* on_resize_end without the except clause
on_resize_end_no_except(exc) == IF exc = "none" THEN "record" ELSE "propagate"

\* resize_devices, lines 348-376: the try statement around resizer.resize
\* catches ResizeFailedException and nothing else
on_resize_end(exc) ==
    IF exc = "none" THEN "record"
    ELSE IF exc = "ResizeFailedException" THEN "failed"
    ELSE "propagate"

Record(devent, action, msg, sizes) ==
    [devent |-> devent, action |-> action, msg |-> msg, sizes |-> sizes]

\* ------------------------------------------------ handle, resizer_factory

\* RESIZERS, in order
RESIZERS == <<"growpart", "gpart">>

\* the modes of the model: auto, the registered names, an unregistered name
\* and off
Modes == {"auto", "growpart", "gpart", "bogus", "off"}

\* the "growpart" entry of the configuration: whether it is a dict, its mode
\* and its ignore_growroot_disabled ("absent" when the key is missing)
Cfgs == [isdict : BOOLEAN, mode : Modes, ignore : {"absent", "False", "True"}]

\* DEFAULT_CONFIG
DEFAULT_CONFIG == [isdict |-> TRUE, mode |-> "auto", ignore |-> "False"]

\* util.is_false(val): the boolean False and the strings that mean it
is_false(val) == val \in {"False", "off", "0", "no", "false"}

\* mycfg.get("ignore_growroot_disabled", False)
get_ignore(c) == IF c.ignore = "absent" THEN "False" ELSE c.ignore

\* handle_gates with the device list tested before /etc/growroot-disabled
handle_gates_devices_first(c, sent, ndevices) ==
    IF ~c.isdict THEN "not a dict"
    ELSE IF is_false(c.mode) THEN "disabled by mode"
    ELSE IF ndevices = 0 THEN "empty device list"
    ELSE IF is_false(get_ignore(c)) /\ sent THEN "growroot-disabled"
    ELSE "none"

\* handle_gates without the test of /etc/growroot-disabled
handle_gates_no_sentinel(c, sent, ndevices) ==
    IF ~c.isdict THEN "not a dict"
    ELSE IF is_false(c.mode) THEN "disabled by mode"
    ELSE IF ndevices = 0 THEN "empty device list"
    ELSE "none"

\* handle, lines 388-412: the early returns, in order; "none" when the run
\* goes on to resizer_factory
handle_gates(c, sent, ndevices) ==
    IF ~c.isdict THEN "not a dict"
    ELSE IF is_false(c.mode) THEN "disabled by mode"
    ELSE IF is_false(get_ignore(c)) /\ sent THEN "growroot-disabled"
    ELSE IF ndevices = 0 THEN "empty device list"
    ELSE "none"

\* what running a diagnostic command gives: the tool could not be started,
\* or it ran, exited with rc, and its stdout (out) / stderr (err) does or
\* does not hold the text looked for
SubpResults ==
    {[spawned |-> FALSE, rc |-> -1, out |-> FALSE, err |-> FALSE]}
        \cup [spawned : {TRUE}, rc : ExitCodes, out : BOOLEAN, err : BOOLEAN]

\* subp.subp(args, rcs=rcs): ProcessExecutionError when the tool cannot be
\* started or exits with a code that is not in rcs
subp(res, rcs) ==
    IF ~res.spawned \/ res.rc \notin rcs THEN "ProcessExecutionError" ELSE "none"

Avail(exc, val) == [exc |-> exc, val |-> val]

\* growpart_available without the except clause
growpart_available_no_except(res) ==
    LET e == subp(res, {0})
    IN  IF e = "none" THEN Avail("none", res.out) ELSE Avail(e, FALSE)

\* ResizeGrowPart.available, lines 134-145
growpart_available(res) ==
    LET e == subp(res, {0})
    IN  IF e = "none" THEN Avail("none", res.out)
        ELSE IF e = "ProcessExecutionError" THEN Avail("none", FALSE)
        ELSE Avail(e, FALSE)

\* ResizeGpart.available, lines 184-195
gpart_available(res) ==
    LET e == subp(res, {0, 1})
    IN  IF e = "none" THEN Avail("none", res.err)
        ELSE IF e = "ProcessExecutionError" THEN Avail("none", FALSE)
        ELSE Avail(e, FALSE)

\* cur.available(), by variant
available(name, res) ==
    IF name = "growpart" THEN growpart_available(res) ELSE gpart_available(res)

\* mmap_lookup that falls back to the first variant for an unknown name
mmap_lookup_fallback(m) ==
    IF \E i \in DOMAIN RESIZERS : RESIZERS[i] = m
    THEN CHOOSE i \in DOMAIN RESIZERS : RESIZERS[i] = m
    ELSE 1

\* resizer_factory, lines 112-117: the index of mode in RESIZERS, 0 when it
\* is not a registered name
mmap_lookup(m) ==
    IF \E i \in DOMAIN RESIZERS : RESIZERS[i] = m
    THEN CHOOSE i \in DOMAIN RESIZERS : RESIZERS[i] = m
    ELSE 0

\* auto_step that takes the first variant whatever available() said
auto_step_first(avail, i) == "select"

\* resizer_factory, lines 102-109: after a probe of variant i in mode auto
auto_step(avail, i) ==
    IF avail THEN "select"
    ELSE IF i < Len(RESIZERS) THEN "next"
    ELSE "ValueError"

\* resizer_factory, lines 119-124: after the probe of the named variant
explicit_step(avail) == IF avail THEN "select" ELSE "ValueError"

\* on_select_error that never re-raises
on_select_error_swallowed(exc, m) == "return"

\* handle, lines 414-420: what handle does with an exception of
\* resizer_factory
on_select_error(exc, m) ==
    IF exc \in {"ValueError", "TypeError"}
    THEN (IF m # "auto" THEN "raise" ELSE "return")
    ELSE "raise"

\* the locals of resize_devices and resize before the first entry
LocalsInit ==
    /\ idx = 1
    /\ info = <<>>
    /\ blockdev = None
    /\ disk = None
    /\ ptnum = "0"
    /\ before = 0
    /\ tmpd = FALSE
    /\ ret = Returned(0, 0)
    /\ raised = "none"
    /\ cmds = <<>>
    /\ invoked = {}

\* handle and resizer_factory have not run
HandleIdle ==
    /\ gate = "none"
    /\ probes = <<>>
    /\ cur = 0
    /\ nselect = 0
    /\ selerr = "none"

\* the locals of query_data_api before its loop
QueryLocalsInit ==
    /\ port = 0
    /\ attempts = <<>>
    /\ last_exc = Unbound
    /\ slept = 0
    /\ qret = QRunning

\* the resolver on its own is not used
ResolverIdle ==
    /\ env = <<>>
    /\ results = <<>>

\* query_data_api is not used
QueryIdle ==
    /\ retries = 0
    /\ QueryLocalsInit

\* resize_devices(resizer, devices) called with any backend and device list
Init ==
    /\ devices \in DeviceLists
    /\ resizer \in ResizerNames
    /\ pc = "loop"
    /\ LocalsInit
    /\ cfg = DEFAULT_CONFIG
    /\ sentinel = FALSE
    /\ HandleIdle
    /\ ResolverIdle
    /\ QueryIdle

\* util.get_cfg_option_list(mycfg, "devices", ["/"]) in the runs of handle:
\* no entry, the default, and a mount point after a device path
HandleDeviceLists == {<<>>, <<Slash>>, <<DevVdb1, Slash>>}

\* handle(_name, cfg, _cloud, log, _args) called with any configuration
InitHandle ==
    /\ devices \in HandleDeviceLists
    /\ resizer = "none"
    /\ pc = "handle"
    /\ LocalsInit
    /\ cfg \in Cfgs
    /\ sentinel \in BOOLEAN
    /\ HandleIdle
    /\ ResolverIdle
    /\ QueryIdle

\* handle, lines 381-412: up to the call of resizer_factory
Handle ==
    /\ pc = "handle"
    /\ gate' = handle_gates(cfg, sentinel, Len(devices))
    /\ pc' = IF gate' = "none" THEN "resizer_factory" ELSE "returned"
    /\ UNCHANGED <<devices, resizer, idx, info, blockdev, disk, ptnum, before,
                   tmpd, ret, raised, cmds, invoked>>
    /\ UNCHANGED <<cfg, sentinel, probes, cur, nselect, selerr, rvars, qvars>>

\* resizer_factory, lines 99-119: up to the first available()
ResizerFactory ==
    /\ pc = "resizer_factory"
    /\ nselect' = nselect + 1
    /\ IF cfg.mode = "auto"
       THEN /\ cur' = 1
            /\ pc' = "available"
            /\ UNCHANGED selerr
       ELSE IF mmap_lookup(cfg.mode) = 0
       THEN /\ selerr' = "TypeError"
            /\ pc' = "factory_done"
            /\ UNCHANGED cur
       ELSE /\ cur' = mmap_lookup(cfg.mode)
            /\ pc' = "available"
            /\ UNCHANGED selerr
    /\ UNCHANGED <<devices, resizer, idx, info, blockdev, disk, ptnum, before,
                   tmpd, ret, raised, cmds, invoked>>
    /\ UNCHANGED <<cfg, sentinel, gate, probes, rvars, qvars>>

\* resizer_factory, lines 103-109 and 119-126: one available() and what
\* follows from it
Available ==
    /\ pc = "available"
    /\ \E res \in SubpResults :
        LET a == available(RESIZERS[cur], res)
            step == IF a.exc # "none" THEN a.exc
                    ELSE IF cfg.mode = "auto" THEN auto_step(a.val, cur)
                    ELSE explicit_step(a.val)
        IN  /\ probes' = Append(probes, [name |-> RESIZERS[cur], res |-> res,
                                         exc |-> a.exc, val |-> a.val])
            /\ CASE step = "select" ->
                      /\ resizer' = RESIZERS[cur]
                      /\ pc' = "factory_done"
                      /\ UNCHANGED <<cur, selerr>>
                 [] step = "next" ->
                      /\ cur' = cur + 1
                      /\ UNCHANGED <<resizer, pc, selerr>>
                 [] OTHER ->
                      /\ selerr' = step
                      /\ pc' = "factory_done"
                      /\ UNCHANGED <<resizer, cur>>
    /\ UNCHANGED <<devices, idx, info, blockdev, disk, ptnum, before,
                   tmpd, ret, raised, cmds, invoked>>
    /\ UNCHANGED <<cfg, sentinel, gate, nselect, rvars, qvars>>

\* handle, lines 414-427: the end of the try statement around
\* resizer_factory, then the call of resize_devices.  The frame of
\* resizer_factory is gone: its locals go back to their initial values.
HandleSelected ==
    /\ pc = "factory_done"
    /\ IF selerr = "none"
       THEN /\ pc' = "loop"
            /\ UNCHANGED <<raised, gate>>
       ELSE IF on_select_error(selerr, cfg.mode) = "raise"
       THEN /\ pc' = "raised"
            /\ raised' = selerr
            /\ UNCHANGED gate
       ELSE /\ pc' = "returned"
            /\ gate' = "no resizer"
            /\ UNCHANGED raised
    /\ probes' = <<>>
    /\ cur' = 0
    /\ UNCHANGED <<devices, resizer, idx, info, blockdev, disk, ptnum, before,
                   tmpd, ret, cmds, invoked>>
    /\ UNCHANGED <<cfg, sentinel, nselect, selerr, rvars, qvars>>

\* resize_devices, lines 299-310: the next entry, through devent2dev
Devent2Dev ==
    /\ pc = "loop"
    /\ idx <= Len(devices)
    /\ \E minfo \in MountDevs, container \in BOOLEAN, cmdroot \in CmdlineDevs,
          there \in BOOLEAN :
        LET d == devent2dev(devices[idx], minfo, container, cmdroot, there)
        IN  CASE d.exc = "none" ->
                   /\ blockdev' = d.dev
                   /\ pc' = "stat"
                   /\ UNCHANGED <<info, idx, raised>>
              [] d.exc = "ValueError" ->
                   /\ info' = Append(info, Record(devices[idx], SKIPPED,
                                                  "unable to convert to device", <<>>))
                   /\ idx' = idx + 1
                   /\ UNCHANGED <<pc, blockdev, raised>>
              [] OTHER ->
                   /\ pc' = "raised"
                   /\ raised' = d.exc
                   /\ UNCHANGED <<info, idx, blockdev>>
    /\ UNCHANGED <<devices, resizer, disk, ptnum, before, tmpd, ret, cmds, invoked>>
    /\ UNCHANGED <<hvars, rvars, qvars>>

\* resize_devices, lines 312-334: stat the device, require a special file
Stat ==
    /\ pc = "stat"
    /\ \E st \in StatResults :
        IF stat_check(st) = "ok"
        THEN /\ pc' = "device_part_info"
             /\ UNCHANGED <<info, idx, blockdev>>
        ELSE /\ info' = Append(info, Record(devices[idx], SKIPPED, stat_check(st), <<>>))
             /\ idx' = idx + 1
             /\ blockdev' = None
             /\ pc' = "loop"
    /\ UNCHANGED <<devices, resizer, disk, ptnum, before, tmpd, ret, raised,
                   cmds, invoked>>
    /\ UNCHANGED <<hvars, rvars, qvars>>

\* resize_devices, lines 336-349: device_part_info, then the call of
\* resizer.resize(disk, ptnum, blockdev)
DevicePartInfo ==
    /\ pc = "device_part_info"
    /\ \E platform \in Platforms, part \in BsdParts, sys \in SysEntries :
        LET p == device_part_info(blockdev, platform, part, sys)
        IN  CASE p.exc = "none" ->
                   /\ disk' = p.disk
                   /\ ptnum' = p.ptnum
                   /\ pc' = resize_entry(resizer)
                   /\ invoked' = invoked \cup {idx}
                   /\ UNCHANGED <<info, idx, blockdev, raised>>
              [] p.exc \in {"TypeError", "ValueError"} ->
                   /\ info' = Append(info, Record(devices[idx], SKIPPED,
                                                  "device_part_info failed", <<>>))
                   /\ idx' = idx + 1
                   /\ blockdev' = None
                   /\ pc' = "loop"
                   /\ UNCHANGED <<disk, ptnum, invoked, raised>>
              [] OTHER ->
                   /\ pc' = "raised"
                   /\ raised' = p.exc
                   /\ UNCHANGED <<info, idx, blockdev, disk, ptnum, invoked>>
    /\ UNCHANGED <<devices, resizer, before, tmpd, ret, cmds>>
    /\ UNCHANGED <<hvars, rvars, qvars>>

\* ResizeGrowPart.resize, lines 148-158: read the size, make the directory
GrowPartBefore ==
    /\ pc = "growpart_before"
    /\ \E r \in SizeReads :
        /\ cmds' = Append(cmds, Cmd("get_size", <<blockdev>>, ReadRes(r)))
        /\ IF r.exc = "none"
           THEN /\ before' = r.size
                /\ pc' = "growpart_dry_run"
                /\ UNCHANGED ret
           ELSE /\ ret' = Raised(r.exc)
                /\ pc' = "resize_done"
                /\ UNCHANGED before
        /\ tmpd' = tempdir(in_with_block(pc'))
    /\ UNCHANGED <<devices, resizer, idx, info, blockdev, disk, ptnum, raised, invoked>>
    /\ UNCHANGED <<hvars, rvars, qvars>>

\* ResizeGrowPart.resize, lines 159-172: growpart --dry-run
GrowPartDryRun ==
    /\ pc = "growpart_dry_run"
    /\ \E rc \in ExitCodes :
        /\ cmds' = Append(cmds, Cmd("growpart --dry-run", <<disk, ptnum>>, rc))
        /\ CASE growpart_dry_run(rc) = "apply" ->
                  /\ pc' = "growpart_apply"
                  /\ UNCHANGED ret
             [] growpart_dry_run(rc) = "return" ->
                  /\ ret' = Returned(before, before)
                  /\ pc' = "resize_done"
             [] OTHER ->
                  /\ ret' = Raised(growpart_dry_run(rc))
                  /\ pc' = "resize_done"
        /\ tmpd' = tempdir(in_with_block(pc'))
    /\ UNCHANGED <<devices, resizer, idx, info, blockdev, disk, ptnum, before,
                   raised, invoked>>
    /\ UNCHANGED <<hvars, rvars, qvars>>

\* ResizeGrowPart.resize, lines 174-178: growpart, then the with block ends
GrowPartApply ==
    /\ pc = "growpart_apply"
    /\ \E rc \in ExitCodes :
        /\ cmds' = Append(cmds, Cmd("growpart", <<disk, ptnum>>, rc))
        /\ IF growpart_apply(rc) = "ok"
           THEN /\ pc' = "growpart_after"
                /\ UNCHANGED ret
           ELSE /\ ret' = Raised(growpart_apply(rc))
                /\ pc' = "resize_done"
        /\ tmpd' = tempdir(in_with_block(pc'))
    /\ UNCHANGED <<devices, resizer, idx, info, blockdev, disk, ptnum, before,
                   raised, invoked>>
    /\ UNCHANGED <<hvars, rvars, qvars>>

\* ResizeGrowPart.resize, line 180
GrowPartAfter ==
    /\ pc = "growpart_after"
    /\ \E r \in SizeReads :
        /\ cmds' = Append(cmds, Cmd("get_size", <<blockdev>>, ReadRes(r)))
        /\ ret' = IF r.exc = "none" THEN Returned(before, r.size) ELSE Raised(r.exc)
        /\ pc' = "resize_done"
    /\ UNCHANGED <<devices, resizer, idx, info, blockdev, disk, ptnum, before,
                   tmpd, raised, invoked>>
    /\ UNCHANGED <<hvars, rvars, qvars>>

\* ResizeGpart.resize, lines 205-210: gpart recover
GpartRecover ==
    /\ pc = "gpart_recover"
    /\ \E rc \in ExitCodes :
        /\ cmds' = Append(cmds, Cmd("gpart recover", <<disk>>, rc))
        /\ IF gpart_recover(rc) = "ok"
           THEN /\ pc' = "gpart_before"
                /\ UNCHANGED ret
           ELSE /\ ret' = Raised(gpart_recover(rc))
                /\ pc' = "resize_done"
    /\ UNCHANGED <<devices, resizer, idx, info, blockdev, disk, ptnum, before,
                   tmpd, raised, invoked>>
    /\ UNCHANGED <<hvars, rvars, qvars>>

\* ResizeGpart.resize, line 212
GpartBefore ==
    /\ pc = "gpart_before"
    /\ \E r \in SizeReads :
        /\ cmds' = Append(cmds, Cmd("get_size", <<blockdev>>, ReadRes(r)))
        /\ IF r.exc = "none"
           THEN /\ before' = r.size
                /\ pc' = "gpart_resize"
                /\ UNCHANGED ret
           ELSE /\ ret' = Raised(r.exc)
                /\ pc' = "resize_done"
                /\ UNCHANGED before
    /\ UNCHANGED <<devices, resizer, idx, info, blockdev, disk, ptnum, tmpd,
                   raised, invoked>>
    /\ UNCHANGED <<hvars, rvars, qvars>>

\* ResizeGpart.resize, lines 213-217: gpart resize -i
GpartResize ==
    /\ pc = "gpart_resize"
    /\ \E rc \in ExitCodes :
        /\ cmds' = Append(cmds, Cmd("gpart resize -i", <<ptnum, disk>>, rc))
        /\ IF gpart_resize(rc) = "ok"
           THEN /\ pc' = "gpart_after"
                /\ UNCHANGED ret
           ELSE /\ ret' = Raised(gpart_resize(rc))
                /\ pc' = "resize_done"
    /\ UNCHANGED <<devices, resizer, idx, info, blockdev, disk, ptnum, before,
                   tmpd, raised, invoked>>
    /\ UNCHANGED <<hvars, rvars, qvars>>

\* ResizeGpart.resize, line 219
GpartAfter ==
    /\ pc = "gpart_after"
    /\ \E r \in SizeReads :
        /\ cmds' = Append(cmds, Cmd("get_size", <<blockdev>>, ReadRes(r)))
        /\ ret' = IF r.exc = "none" THEN Returned(before, r.size) ELSE Raised(r.exc)
        /\ pc' = "resize_done"
    /\ UNCHANGED <<devices, resizer, idx, info, blockdev, disk, ptnum, before,
                   tmpd, raised, invoked>>
    /\ UNCHANGED <<hvars, rvars, qvars>>

\* resize_devices, lines 348-376: what the loop does with the way resize
\* ended.  The frame of the finished call is gone and the locals of the loop
\* body are dead until the next pass assigns them: they go back to their
\* initial values.
RecordResize ==
    /\ pc = "resize_done"
    /\ CASE on_resize_end(ret.exc) = "record" ->
              /\ info' = Append(info, Record(devices[idx], resize_outcome(ret.old, ret.new),
                                   IF ret.old = ret.new THEN "no change necessary" ELSE "changed",
                                   IF ret.old = ret.new THEN <<>> ELSE <<ret.old, ret.new>>))
              /\ idx' = idx + 1
              /\ pc' = "loop"
              /\ UNCHANGED raised
         [] on_resize_end(ret.exc) = "failed" ->
              /\ info' = Append(info, Record(devices[idx], FAILED, "failed to resize", <<>>))
              /\ idx' = idx + 1
              /\ pc' = "loop"
              /\ UNCHANGED raised
         [] OTHER ->
              /\ pc' = "raised"
              /\ raised' = ret.exc
              /\ UNCHANGED <<info, idx>>
    /\ blockdev' = None
    /\ disk' = None
    /\ ptnum' = "0"
    /\ before' = 0
    /\ ret' = Returned(0, 0)
    /\ cmds' = <<>>
    /\ UNCHANGED <<devices, resizer, tmpd, invoked>>
    /\ UNCHANGED <<hvars, rvars, qvars>>

\* resize_devices, line 378
ReturnInfo ==
    /\ pc = "loop"
    /\ idx > Len(devices)
    /\ pc' = "returned"
    /\ UNCHANGED <<devices, resizer, idx, info, blockdev, disk, ptnum, before,
                   tmpd, ret, raised, cmds, invoked>>
    /\ UNCHANGED <<hvars, rvars, qvars>>

Next ==
    \/ Devent2Dev
    \/ Stat
    \/ DevicePartInfo
    \/ GrowPartBefore
    \/ GrowPartDryRun
    \/ GrowPartApply
    \/ GrowPartAfter
    \/ GpartRecover
    \/ GpartBefore
    \/ GpartResize
    \/ GpartAfter
    \/ RecordResize
    \/ ReturnInfo

Spec == Init /\ [][Next]_vars

\* a run of handle
NextHandle ==
    \/ Handle
    \/ ResizerFactory
    \/ Available
    \/ HandleSelected
    \/ Next

SpecHandle == InitHandle /\ [][NextHandle]_vars

\* devent2dev and device_part_info on their own, against any operating
\* system state
InitResolve ==
    /\ devices = <<>>
    /\ resizer = "none"
    /\ pc = "resolve"
    /\ LocalsInit
    /\ cfg = DEFAULT_CONFIG
    /\ sentinel = FALSE
    /\ HandleIdle
    /\ env \in Envs
    /\ results = <<>>
    /\ QueryIdle

\* devent2dev(devent) followed by device_part_info: lines 273-293, 230-270
ResolveEntry ==
    /\ pc = "resolve"
    /\ Len(results) < MaxResolves
    /\ \E devent \in DevEnts :
        LET d == resolve_dev(devent, env)
            p == resolve_part(d, env)
        IN  /\ results' = Append(results, [devent |-> devent, dev |-> d, part |-> p])
            /\ env' = os_state_after(env, d)
    /\ UNCHANGED <<devices, resizer, pc, idx, info, blockdev, disk, ptnum,
                   before, tmpd, ret, raised, cmds, invoked, hvars,
                   qvars>>

NextResolve == ResolveEntry

SpecResolve == InitResolve /\ [][NextResolve]_vars

\* query_data_api(api_type, api_address, headers, headers_redact, retries,
\* timeout) called with any retries
InitQuery ==
    /\ devices = <<>>
    /\ resizer = "none"
    /\ pc = "query_for"
    /\ LocalsInit
    /\ cfg = DEFAULT_CONFIG
    /\ sentinel = FALSE
    /\ HandleIdle
    /\ env = <<>>
    /\ results = <<>>
    /\ retries \in Retries
    /\ QueryLocalsInit

\* query_data_api, lines 148-162: the next port of the range, a session
\* bound to it, and query_data_api_once
QueryAttempt ==
    /\ pc = "query_for"
    /\ port + 1 < range_stop(retries)
    /\ port' = port + 1
    /\ \E res \in ReadUrlResults :
        LET o == query_data_api_once(res, port')
        IN  /\ attempts' = Append(attempts, [port |-> port', res |-> res, out |-> o])
            /\ IF o.kind = "returned"
               THEN /\ qret' = o
                    /\ pc' = "query_done"
               ELSE /\ pc' = "query_except"
                    /\ UNCHANGED qret
    /\ UNCHANGED <<retries, last_exc, slept>>
    /\ UNCHANGED <<devices, resizer, idx, info, blockdev, disk, ptnum, before,
                   tmpd, ret, raised, cmds, invoked, hvars, rvars>>

\* query_data_api, lines 164-169: the except clause
QuerySleep ==
    /\ pc = "query_except"
    /\ slept' = slept + 1
    /\ last_exc' = attempts[Len(attempts)].out.exc
    /\ pc' = "query_for"
    /\ UNCHANGED <<retries, port, attempts, qret>>
    /\ UNCHANGED <<devices, resizer, idx, info, blockdev, disk, ptnum, before,
                   tmpd, ret, raised, cmds, invoked, hvars, rvars>>

\* query_data_api, lines 171-172: the range is exhausted
QueryRaiseLast ==
    /\ pc = "query_for"
    /\ ~(port + 1 < range_stop(retries))
    /\ qret' = raise_last(last_exc)
    /\ pc' = "query_done"
    /\ UNCHANGED <<retries, port, attempts, last_exc, slept>>
    /\ UNCHANGED <<devices, resizer, idx, info, blockdev, disk, ptnum, before,
                   tmpd, ret, raised, cmds, invoked, hvars, rvars>>

NextQuery ==
    \/ QueryAttempt
    \/ QuerySleep
    \/ QueryRaiseLast

SpecQuery == InitQuery /\ [][NextQuery]_vars

\* query_data_api runs on one thread: a step that can be taken is taken
SpecQueryLive == SpecQuery /\ WF_vars(NextQuery)

\* ------------------------------------------------------------------ claims

\* the entries resize_devices is through with: those before the one the loop
\* is at, and that one too when an exception ended the call there
Finished(i) == i < idx \/ (i = idx /\ pc = "raised")

\* C1: resize_devices always returns, and the report it returns has exactly
\* one record per input entry, record i carrying entry i: no failure of a
\* lookup, a stat, a size read or an external command ends the call without
\* the full report.
C1_FullReportAlways ==
    /\ pc # "raised"
    /\ pc = "returned" =>
          /\ Len(info) = Len(devices)
          /\ \A i \in 1..Len(devices) : info[i].devent = devices[i]

\* C2: when resizer.resize ends with ResizeFailedException for an entry, the
\* loop appends FAILED for that entry to the records it already has, which
\* stay as they are, and goes on with the next entry.
C2_FailedThatEntryOnly ==
    [][(pc = "resize_done" /\ ret.exc = "ResizeFailedException") =>
          /\ info' = Append(info, Record(devices[idx], FAILED, "failed to resize", <<>>))
          /\ idx' = idx + 1
          /\ pc' = "loop"
          /\ raised' = "none"]_vars

\* C2 witness: the first entry was resized, the second failed, and the call
\* returned both records in that order
C2_Witness ==
    /\ pc = "returned"
    /\ Len(info) = 2
    /\ info[1].action = CHANGED
    /\ info[2].action = FAILED
    /\ info[1].devent = devices[1]
    /\ info[2].devent = devices[2]

\* C3: a failure of the resolution phase (devent2dev, stat, device_part_info)
\* never ends the run: an exception escapes resize_devices, if at all, only
\* from a call of resizer.resize.
C3_ResolutionNeverAborts == pc = "raised" => idx \in invoked

\* C4: every entry the loop is through with and did not call resizer.resize
\* for has the record SKIPPED, and no SKIPPED entry had resize called.
C4_UnresolvedIsSkipped ==
    /\ \A i \in 1..Len(devices) :
          (Finished(i) /\ i \notin invoked) =>
              (i <= Len(info) /\ info[i].action = SKIPPED)
    /\ \A i \in 1..Len(info) : info[i].action = SKIPPED => i \notin invoked

C6_OutcomeOfReturn ==
    [][(pc = "resize_done" /\ ret.exc = "none") =>
          /\ ret.old = ret.new =>
                info' = Append(info, Record(devices[idx], NOCHANGE,
                                            "no change necessary", <<>>))
          /\ ret.new > ret.old =>
                info' = Append(info, Record(devices[idx], CHANGED, "changed",
                                            <<ret.old, ret.new>>))]_vars

\* C6 witness: a report with a NOCHANGE record and then a CHANGED record of a
\* partition grown from 0 to 1
C6_Witness ==
    /\ Len(info) = 2
    /\ info[1].action = NOCHANGE
    /\ info[2].action = CHANGED
    /\ info[2].sizes = <<0, 1>>

\* the current call ran growpart --dry-run and it exited with code 1
DryRunExitedOne ==
    \E i \in DOMAIN cmds : cmds[i].op = "growpart --dry-run" /\ cmds[i].res = 1

\* C7: when growpart --dry-run exits with code 1, ResizeGrowPart.resize
\* returns (before, before) without raising, the call never issues growpart
\* for real, and the loop records NOCHANGE for the entry.
C7_DryRunExitOne ==
    /\ [](DryRunExitedOne =>
             /\ pc = "resize_done"
             /\ ret = Returned(before, before)
             /\ \A i \in DOMAIN cmds : cmds[i].op # "growpart")
    /\ [][DryRunExitedOne =>
             info' = Append(info, Record(devices[idx], NOCHANGE,
                                         "no change necessary", <<>>))]_vars

\* C7 witness: a growpart call that ended after a dry run with exit code 1
C7_Witness ==
    /\ pc = "resize_done"
    /\ resizer = "growpart"
    /\ DryRunExitedOne
    /\ before = 1

\* C8: in a call of ResizeGrowPart.resize growpart is run for real at most
\* once, and only after a growpart --dry-run of the same call, with the same
\* (disk, partition number), exited with code 0.
C8_ApplyOnlyAfterDryRun ==
    /\ Cardinality({i \in DOMAIN cmds : cmds[i].op = "growpart"}) <= 1
    /\ \A i \in DOMAIN cmds :
          cmds[i].op = "growpart" =>
              \E j \in 1..(i - 1) :
                  /\ cmds[j].op = "growpart --dry-run"
                  /\ cmds[j].res = 0
                  /\ cmds[j].args = cmds[i].args
                  /\ cmds[i].args = <<disk, ptnum>>

\* C8 witness: growpart was run for real, on partition 2 of /dev/vdb
C8_Witness ==
    \E i \in DOMAIN cmds :
        cmds[i].op = "growpart" /\ cmds[i].args = <<DevVdb, "2">>

\* an exit of an external command that the backend treats as fatal
Fatal(c) ==
    \/ c.op = "growpart --dry-run" /\ c.res \notin {0, 1}
    \/ c.op \in {"growpart", "gpart recover", "gpart resize -i"} /\ c.res # 0

\* C9: a fatal exit of growpart --dry-run, growpart, gpart recover or gpart
\* resize ends the call with ResizeFailedException and no later command, and
\* no other kind of exception escapes resize.
C9_OnlyResizeFailedEscapes ==
    /\ \A i \in DOMAIN cmds :
          Fatal(cmds[i]) =>
              /\ i = Len(cmds)
              /\ pc = "resize_done"
              /\ ret.exc = "ResizeFailedException"
    /\ pc = "resize_done" => ret.exc \in {"none", "ResizeFailedException"}

\* the order of the steps of ResizeGpart.resize
GpartSteps == <<"gpart recover", "get_size", "gpart resize -i", "get_size">>

\* C10: a call of ResizeGpart.resize runs gpart recover on the disk, reads
\* the size, runs gpart resize -i on the partition, reads the size, in this
\* order; nothing follows a recover that did not exit with 0; the size
\* returned as beforeSize is the one read between recover and resize.
C10_GpartOrder ==
    resizer = "gpart" =>
        /\ Len(cmds) <= Len(GpartSteps)
        /\ \A i \in DOMAIN cmds : cmds[i].op = GpartSteps[i]
        /\ Len(cmds) >= 1 => cmds[1].args = <<disk>>
        /\ Len(cmds) >= 2 => cmds[1].res = 0
        /\ Len(cmds) >= 3 =>
              /\ cmds[3].args = <<ptnum, disk>>
              /\ cmds[2].res = before
        /\ (pc = "resize_done" /\ ret.exc = "none") =>
              /\ Len(cmds) = 4
              /\ ret = Returned(cmds[2].res, cmds[4].res)

\* C10 witness: a gpart call that returned after all four steps, the
\* partition grown
C10_Witness ==
    /\ resizer = "gpart"
    /\ pc = "resize_done"
    /\ ret.exc = "none"
    /\ Len(cmds) = 4
    /\ ret.new > ret.old

\* resize_devices has not touched any entry and no resize command was issued
NoEntryProcessed ==
    /\ idx = 1
    /\ info = <<>>
    /\ invoked = {}
    /\ cmds = <<>>
    /\ blockdev = None

\* C11: in mode auto resizer_factory probes growpart, then gpart, stops at
\* the first whose available() is true and returns it; it never returns a
\* variant whose available() was false, and it fails, returning no backend,
\* exactly when both probes were false.
C11_AutoFirstAvailable ==
    (cfg.mode = "auto" /\ pc \in {"available", "factory_done"}) =>
        /\ Len(probes) <= 2
        /\ \A i \in DOMAIN probes : probes[i].name = <<"growpart", "gpart">>[i]
        /\ \A i \in 1..(Len(probes) - 1) : ~probes[i].val
        /\ pc = "factory_done" =>
              /\ Len(probes) >= 1
              /\ selerr = "none" =>
                    /\ resizer = probes[Len(probes)].name
                    /\ probes[Len(probes)].val
              /\ selerr # "none" =>
                    /\ selerr = "ValueError"
                    /\ resizer = "none"
                    /\ Len(probes) = 2
                    /\ ~probes[2].val

\* C11 witness: growpart was probed and not available, gpart was and is
\* returned
C11_Witness ==
    /\ cfg.mode = "auto"
    /\ pc = "factory_done"
    /\ resizer = "gpart"
    /\ Len(probes) = 2

\* C12: in an explicit mode resizer_factory raises TypeError, probing
\* nothing, when the name is not registered; else it probes the named
\* variant only, raises ValueError when its available() is false and returns
\* that variant when it is true.
C12_ExplicitMode ==
    (cfg.mode # "auto" /\ pc \in {"available", "factory_done"}) =>
        /\ \A i \in DOMAIN probes : probes[i].name = cfg.mode
        /\ pc = "factory_done" =>
              IF cfg.mode \notin {"growpart", "gpart"}
              THEN selerr = "TypeError" /\ probes = <<>> /\ resizer = "none"
              ELSE /\ Len(probes) = 1
                   /\ probes[1].val => (selerr = "none" /\ resizer = cfg.mode)
                   /\ ~probes[1].val => (selerr = "ValueError" /\ resizer = "none")

\* C12 witness: mode gpart, gpart available and returned
C12_Witness ==
    /\ cfg.mode = "gpart"
    /\ pc = "factory_done"
    /\ resizer = "gpart"

\* C13 as stated: when backend selection fails no entry is processed and the
\* run ends with the selection error raised, in mode auto as in an explicit
\* mode.
C13_SelectionErrorEndsRun ==
    selerr # "none" =>
        /\ NoEntryProcessed
        /\ pc # "factory_done" => (pc = "raised" /\ raised = selerr)

\* C13 amended: when backend selection fails no entry is processed and no
\* command issued; in mode auto with no backend available resizer_factory
\* raises ValueError and handle catches it and returns without raising; in
\* an explicit mode the error of resizer_factory escapes handle.
C13_SelectionErrorByMode ==
    selerr # "none" =>
        /\ NoEntryProcessed
        /\ \/ pc = "factory_done"
           \/ /\ cfg.mode = "auto"
              /\ selerr = "ValueError"
              /\ pc = "returned"
              /\ raised = "none"
           \/ /\ cfg.mode # "auto"
              /\ pc = "raised"
              /\ raised = selerr

\* C13 witness: mode auto, no backend available, handle has returned
C13_Witness ==
    /\ cfg.mode = "auto"
    /\ selerr = "ValueError"
    /\ pc = "returned"
    /\ devices # <<>>

\* C14: with /etc/growroot-disabled present and ignore_growroot_disabled
\* false or absent, handle returns without calling resizer_factory, probing,
\* resolving or resizing; with ignore_growroot_disabled true the run takes
\* the way it takes without the file.
C14_Sentinel ==
    pc # "handle" =>
        /\ (sentinel /\ cfg.ignore \in {"absent", "False"}) =>
              /\ pc = "returned"
              /\ nselect = 0
              /\ probes = <<>>
              /\ resizer = "none"
              /\ NoEntryProcessed
        /\ cfg.ignore = "True" =>
              /\ gate # "growroot-disabled"
              /\ (gate \in {"none", "no resizer"}) <=>
                    (handle_gates(cfg, ~sentinel, Len(devices)) = "none")

\* C14 witness: the file is there, the key is absent, and nothing else would
\* have stopped the run
C14_Witness ==
    /\ sentinel
    /\ cfg = [isdict |-> TRUE, mode |-> "auto", ignore |-> "absent"]
    /\ devices # <<>>
    /\ gate = "growroot-disabled"
    /\ pc = "returned"

\* the commands and reads of a backend
OpsOf(name) ==
    IF name = "growpart" THEN {"get_size", "growpart --dry-run", "growpart"}
    ELSE IF name = "gpart" THEN {"get_size", "gpart recover", "gpart resize -i"}
    ELSE {}

\* C15: in a run of handle resizer_factory is called at most once, before
\* the first entry is touched; the backend it returned stays the backend of
\* the run, and every command issued is one of that backend.
C15_OneBackend ==
    /\ [](/\ nselect <= 1
          /\ (nselect = 0 \/ pc \in {"resizer_factory", "available", "factory_done"})
                => NoEntryProcessed
          /\ pc \in {"loop", "stat", "device_part_info", "resize_done"}
                => (nselect = 1 /\ resizer \in {"growpart", "gpart"})
          /\ \A i \in DOMAIN cmds : cmds[i].op \in OpsOf(resizer))
    /\ [][resizer # "none" => resizer' = resizer]_vars

\* C15 witness: two entries were resized by gpart after one selection
C15_Witness ==
    /\ resizer = "gpart"
    /\ nselect = 1
    /\ invoked = {1, 2}
    /\ pc = "returned"

\* the name of the command a step has just run, "" when it ran none
Ran == IF Len(cmds') = Len(cmds) + 1 THEN cmds'[Len(cmds')].op ELSE ""

\* C17: the temporary directory of a ResizeGrowPart.resize call does not
\* exist once the call has ended (returned after the apply, returned early
\* on dry-run exit 1, or raised from the dry run or the apply), and
\* growpart --dry-run and growpart run only while it exists
C17_TempDirScoped ==
    /\ [](pc \in {"resize_done", "growpart_after", "loop", "raised", "returned"}
            => ~tmpd)
    /\ [][(Ran \in {"growpart --dry-run", "growpart"}) => (tmpd = TRUE)]_vars

\* C17 witness: a call that ran both growpart commands has ended and the
\* directory is gone
C17_Witness ==
    /\ pc = "resize_done"
    /\ resizer = "growpart"
    /\ ~tmpd
    /\ \E i, j \in DOMAIN cmds :
        /\ i < j
        /\ cmds[i].op = "growpart --dry-run"
        /\ cmds[j].op = "growpart"

\* the diagnostic command of a variant ran and its output has the text
\* looked for: growpart --help exited 0 with --update in its stdout, gpart
\* help exited 0 or 1 with 'gpart recover ' in its stderr
Matched(name, res) ==
    /\ res.spawned
    /\ IF name = "growpart" THEN res.rc = 0 /\ res.out
                            ELSE res.rc \in {0, 1} /\ res.err

\* C18: available() of either variant never raises; it returns true when
\* the diagnostic command ran and its output matched, and false when the
\* command could not be run, exited with another code or did not match
C18_AvailableNeverRaises ==
    \A i \in DOMAIN probes :
        /\ probes[i].exc = "none"
        /\ probes[i].val = Matched(probes[i].name, probes[i].res)

\* C18 witness: growpart could not be started and was reported unavailable,
\* then gpart help exited 1 with the text in stderr and was reported available
C18_Witness ==
    /\ Len(probes) = 2
    /\ probes[1].name = "growpart" /\ ~probes[1].res.spawned /\ ~probes[1].val
    /\ probes[2].name = "gpart" /\ probes[2].res.rc = 1 /\ probes[2].val

RootPlaceholder(r) ==
    /\ ~startswith_dev(r.devent)
    /\ env.minfo = DevRoot
    /\ ~env.container
    /\ env.cmdroot = None

\* C20: when the mount table reports /dev/root and the kernel command line
\* gives no device, devent2dev returns /dev/root if that path exists and
\* raises ValueError otherwise; it never ends with another error
C20_PlaceholderOrValueError ==
    \A i \in DOMAIN results :
        RootPlaceholder(results[i])
            => IF env.there
               THEN results[i].dev = [exc |-> "none", dev |-> DevRoot]
               ELSE results[i].dev.exc = "ValueError"

\* the early returns of handle that come before backend selection
EarlyGates == {"not a dict", "disabled by mode", "growroot-disabled",
               "empty device list"}

\* the file /etc/growroot-disabled is there and is not ignored
SentinelApplies == sentinel /\ cfg.ignore \in {"absent", "False"}

\* C21: handle applies its gates in the order: configuration not a dict,
\* mode "off", /etc/growroot-disabled, empty device list, backend selection;
\* the first gate whose condition holds ends the run and nothing after it is
\* executed; with mode "off" or an empty device list no available() probe is
\* made and no entry is resolved or resized
C21_GateOrder ==
    /\ [](pc # "handle" =>
            /\ ~cfg.isdict => gate = "not a dict"
            /\ (cfg.isdict /\ cfg.mode = "off") => gate = "disabled by mode"
            /\ (cfg.isdict /\ cfg.mode # "off" /\ SentinelApplies)
                  => gate = "growroot-disabled"
            /\ (cfg.isdict /\ cfg.mode # "off" /\ ~SentinelApplies
                  /\ devices = <<>>) => gate = "empty device list"
            /\ (cfg.isdict /\ cfg.mode # "off" /\ ~SentinelApplies
                  /\ devices # <<>>) => gate \in {"none", "no resizer"}
            /\ gate = "no resizer" => selerr # "none"
            /\ (gate \in EarlyGates \/ cfg.mode = "off" \/ devices = <<>>) =>
                  /\ pc = "returned"
                  /\ nselect = 0
                  /\ probes = <<>>
                  /\ resizer = "none"
                  /\ NoEntryProcessed)
    /\ [][pc # "returned"]_vars

\* C21 witness: mode "off" with the file present and a device list that is
\* not empty: the run ended at the mode gate
C21_Witness ==
    /\ pc = "returned"
    /\ gate = "disabled by mode"
    /\ cfg.isdict
    /\ SentinelApplies
    /\ devices # <<>>
    /\ nselect = 0

\* max(retries, 2) - 1
MaxAttempts == (IF retries > 2 THEN retries ELSE 2) - 1

\* the attempts before the k-th all raised UrlError
AllRaisedBefore(k) ==
    \A i \in 1..(k - 1) : attempts[i].out.kind = "raised"

\* C22: query_data_api terminates; it makes at most max(retries, 2) - 1
\* attempts, the k-th bound to source port k; it returns the result of the
\* first attempt that raises no UrlError and makes no attempt after it; when
\* every attempt raised UrlError it raises the UrlError of the last one
C22_QueryTerminates ==
    /\ <>(pc = "query_done")
    /\ [](/\ Len(attempts) <= MaxAttempts
          /\ \A k \in DOMAIN attempts : attempts[k].port = k
          /\ AllRaisedBefore(Len(attempts))
          /\ pc = "query_done" =>
                /\ Len(attempts) >= 1
                /\ qret.kind \in {"returned", "raised"}
                /\ qret.kind = "returned" =>
                      qret = attempts[Len(attempts)].out
                /\ qret.kind = "raised" =>
                      /\ Len(attempts) = MaxAttempts
                      /\ attempts[Len(attempts)].out.kind = "raised"
                      /\ qret.exc = attempts[Len(attempts)].out.exc
                      /\ qret.exc.port = MaxAttempts
                      /\ qret.exc.code \in UrlCodes)
    /\ [][pc # "query_done"]_vars

\* C22 witness: with retries 4 three attempts were made on ports 1, 2 and 3,
\* all raised UrlError, and the call ended with the error of port 3
C22_Witness ==
    /\ pc = "query_done"
    /\ retries = 4
    /\ Len(attempts) = 3
    /\ qret.kind = "raised"
    /\ qret.exc.port = 3

\* C23: an HTTP 404 makes query_data_api_once return None, and
\* query_data_api return None on that attempt with no sleep and no attempt
\* on another port after it; any other UrlError is raised to the loop of
\* query_data_api, which sleeps and goes on
C23_NotFoundIsEmpty ==
    \A k \in DOMAIN attempts :
        LET a == attempts[k] IN
        /\ (a.res.kind = "UrlError" /\ a.res.code = "404") =>
              /\ a.out = QReturn(None)
              /\ k = Len(attempts)
              /\ pc = "query_done"
              /\ qret = QReturn(None)
              /\ slept = k - 1
        /\ (a.res.kind = "UrlError" /\ a.res.code # "404") =>
              /\ a.out = QRaise(UrlError(a.res.code, k))
              /\ \/ slept >= k /\ last_exc.port >= k
                 \/ k = Len(attempts) /\ pc = "query_except" /\ slept = k - 1

\* C23 witness: the first attempt got HTTP 429, the second HTTP 404, and
\* the call returned None after one sleep
C23_Witness ==
    /\ pc = "query_done"
    /\ Len(attempts) = 2
    /\ attempts[1].res.code = "429"
    /\ attempts[2].res.code = "404"
    /\ qret = QReturn(None)
    /\ slept = 1

====
